---- MODULE Spec2Model ----
(***************************************************************************)
(* A model of PokerBot.cpp: the card deck, the 7-card hand evaluator, the  *)
(* poker game used by one simulated trial, and the Monte-Carlo loop of     *)
(* PokerBot with its stay/fold decision.                                   *)
(*                                                                         *)
(* The specifications share the variables:                                *)
(*   Spec        the PokerBot driven through setKnownCards / runMCTS;      *)
(*   SpecFair    the same under a clock that reaches the time limit;       *)
(*   SpecEval    HandEvaluator::evaluate applied to 7-card hands;          *)
(*   SpecOrder   evaluate applied to 7 cards in several orders;            *)
(*   SpecCompare two evaluations compared with operator> and operator==;   *)
(*   SpecDeck    a free-standing Deck under arbitrary operations.          *)
(***************************************************************************)
EXTENDS Integers, Sequences, FiniteSets

VARIABLES
    deck,               \* Deck::cards (PokerGame::deck in Spec, a lone Deck in SpecDeck)
    botHoleCards,       \* PokerGame::botHoleCards
    opponentHoleCards,  \* PokerGame::opponentHoleCards
    communityCards,     \* PokerGame::communityCards
    myCards,            \* PokerBot::myCards
    community,          \* PokerBot::community
    totalRuns,          \* PokerBot::totalRuns
    winningRuns,        \* PokerBot::winningRuns
    rootNode,           \* PokerBot::rootNode, [wins, visits]
    pc,                 \* where the caller of the PokerBot stands
    msTimeLimit,        \* the argument of the runMCTS call in progress
    elapsedMs,          \* the last value of elapsedMs read inside runMCTS
    won,                \* the local won of runMCTS: the last trial's outcome
    cards,              \* the vector handed to HandEvaluator::evaluate (SpecEval)
    evaluation,         \* the HandEvaluation it returned (SpecEval)
    otherCards,         \* the second hand of a comparison (SpecCompare)
    otherEvaluation,    \* its HandEvaluation (SpecCompare)
    comparison,         \* the outcomes of operator> and operator== (SpecCompare)
    deckOps             \* number of Deck operations applied so far (SpecDeck)

vars == <<deck, botHoleCards, opponentHoleCards, communityCards, myCards,
          community, totalRuns, winningRuns, rootNode, pc, msTimeLimit,
          elapsedMs, won, cards, evaluation, otherCards, otherEvaluation,
          comparison, deckOps>>

gameVars == <<deck, botHoleCards, opponentHoleCards, communityCards>>

botVars == <<myCards, community, totalRuns, winningRuns, rootNode, pc,
             msTimeLimit, elapsedMs, won>>

otherVars == <<otherCards, otherEvaluation, comparison>>

evalVars == <<cards, evaluation, otherVars>>

(***************************************************************************)
(* Constants of the program.                                               *)
(***************************************************************************)
DECK_SIZE == 52

CLUBS == 0

DIAMONDS == 1

HEARTS == 2

SPADES == 3

TWO == 2

ACE == 14

HIGH_CARD == 0

PAIR == 1

TWO_PAIR == 2

THREE_OF_A_KIND == 3

STRAIGHT == 4

FLUSH == 5

FULL_HOUSE == 6

FOUR_OF_A_KIND == 7

STRAIGHT_FLUSH == 8

ROYAL_FLUSH == 9

Suits == CLUBS..SPADES

Values == TWO..ACE

(***************************************************************************)
(* Card.                                                                   *)
(***************************************************************************)
Card(s, v) == [suit |-> s, value |-> v]

toInt(c) == c.suit * 13 + c.value - 2

fromInt(cardIndex) == Card(cardIndex \div 13, (cardIndex % 13) + 2)

cardsEqual(a, b) == toInt(a) = toInt(b)

\* The values 14, 13, ..., 2: the order of every descending scan of the evaluator.
DescValues == [i \in 1..13 |-> 15 - i]

(***************************************************************************)
(* HandEvaluation: [rank, tiebreakers], with operator> and operator==.     *)
(***************************************************************************)
HandEvaluation(r, tb) == [rank |-> r, tiebreakers |-> tb]

MinOf(a, b) == IF a < b THEN a ELSE b

\* The first index at which the two sequences differ within their common
\* length, or 0 when they agree there.
FirstDiff(s, t) ==
    LET D == {i \in 1..MinOf(Len(s), Len(t)) : s[i] # t[i]}
    IN  IF D = {} THEN 0 ELSE CHOOSE i \in D : \A j \in D : i <= j

\* Faulty variant: the last differing tiebreaker decides.
GreaterThan_LastDiff(a, b) ==
    IF a.rank # b.rank
    THEN a.rank > b.rank
    ELSE LET D == {i \in 1..MinOf(Len(a.tiebreakers), Len(b.tiebreakers)) :
                      a.tiebreakers[i] # b.tiebreakers[i]}
             d == IF D = {} THEN 0 ELSE CHOOSE i \in D : \A j \in D : j <= i
         IN  d # 0 /\ a.tiebreakers[d] > b.tiebreakers[d]

GreaterThan(a, b) ==
    IF a.rank # b.rank
    THEN a.rank > b.rank
    ELSE LET d == FirstDiff(a.tiebreakers, b.tiebreakers)
         IN  d # 0 /\ a.tiebreakers[d] > b.tiebreakers[d]

Equals(a, b) ==
    /\ a.rank = b.rank
    /\ Len(a.tiebreakers) = Len(b.tiebreakers)
    /\ \A i \in 1..Len(a.tiebreakers) : a.tiebreakers[i] = b.tiebreakers[i]

(***************************************************************************)
(* HandEvaluator::evaluateComplete.                                        *)
(***************************************************************************)
valueCounts(hand) ==
    [v \in 0..14 |-> Cardinality({i \in DOMAIN hand : hand[i].value = v})]

suitCounts(hand) ==
    [s \in 0..3 |-> Cardinality({i \in DOMAIN hand : hand[i].suit = s})]

hasFlush(sc) == \E i \in 0..3 : sc[i] >= 5

\* The first suit with five or more cards; CLUBS when there is none.
flushSuit(sc) ==
    IF hasFlush(sc)
    THEN CHOOSE i \in 0..3 : sc[i] >= 5 /\ \A j \in 0..3 : sc[j] >= 5 => i <= j
    ELSE CLUBS

Window(vc, i) ==
    vc[i] > 0 /\ vc[i+1] > 0 /\ vc[i+2] > 0 /\ vc[i+3] > 0 /\ vc[i+4] > 0

Wheel(vc) == vc[14] > 0 /\ vc[2] > 0 /\ vc[3] > 0 /\ vc[4] > 0 /\ vc[5] > 0

hasStraight(vc) == Wheel(vc) \/ \E i \in 2..10 : Window(vc, i)

\* Faulty variant: the wheel reports the Ace as its high card.
straightHighCard_WheelAce(vc) ==
    IF \E i \in 2..10 : Window(vc, i)
    THEN 4 + CHOOSE i \in 2..10 :
                 Window(vc, i) /\ \A j \in 2..10 : Window(vc, j) => j <= i
    ELSE IF Wheel(vc) THEN 14 ELSE 0

\* The wheel sets 5; the scan from 10 down to 2 overrides it with the first
\* (highest) window found.
straightHighCard(vc) ==
    IF \E i \in 2..10 : Window(vc, i)
    THEN 4 + CHOOSE i \in 2..10 :
                 Window(vc, i) /\ \A j \in 2..10 : Window(vc, j) => j <= i
    ELSE IF Wheel(vc) THEN 5 ELSE 0

\* Faulty variant: the flush cards are left in the order of the hand.
flushCards_Unsorted(hand, s) ==
    LET fc == SelectSeq(hand, LAMBDA c : c.suit = s)
    IN  [i \in 1..Len(fc) |-> fc[i].value]

\* The values of the cards of suit s, sorted descending (flushCards).
flushCards(hand, s) ==
    LET n[k \in 0..13] ==
            IF k = 0 THEN <<>>
            ELSE n[k-1] \o [j \in 1..Cardinality({i \in DOMAIN hand :
                                hand[i].suit = s /\ hand[i].value = DescValues[k]})
                            |-> DescValues[k]]
    IN  n[13]

InSeq(x, s) == \E i \in DOMAIN s : s[i] = x

\* flushValues: the flush cards' values, descending, duplicates removed.
flushValues(fc) == SelectSeq(DescValues, LAMBDA v : InSeq(v, fc))

isRoyal(fc) == \A v \in 10..14 : InSeq(v, fc)

\* Faulty variant: the wheel is tested after the scan and overrides its result.
straightFlush_WheelLast(hf, fc, hs, shc) ==
    IF ~(hf /\ Len(fc) >= 5)
    THEN [has |-> FALSE, high |-> 0]
    ELSE IF \A v \in {14, 2, 3, 4, 5} : InSeq(v, fc)
    THEN [has |-> TRUE, high |-> 5]
    ELSE LET fv == flushValues(fc)
             R  == {i \in 1..(Len(fv) - 4) : fv[i] = fv[i+4] + 4}
         IN  IF R # {}
             THEN [has |-> TRUE, high |-> fv[CHOOSE i \in R : \A j \in R : i <= j]]
             ELSE [has |-> FALSE, high |-> 0]

\* The straight flush search inside the flush suit: [has, high].
\* The scan of flushValues reads indices 0 .. size-5; with fewer than five
\* distinct values (possible only when a card is repeated) size-5 wraps and
\* the scan reads out of bounds; hands of distinct cards never get there.
straightFlush(hf, fc, hs, shc) ==
    IF ~(hf /\ Len(fc) >= 5)
    THEN [has |-> FALSE, high |-> 0]
    ELSE IF hs /\ shc = 14 /\ isRoyal(fc)
    THEN [has |-> TRUE, high |-> 14]
    ELSE LET fv == flushValues(fc)
             R  == {i \in 1..(Len(fv) - 4) : fv[i] = fv[i+4] + 4}
             wheel == InSeq(14, fv) /\ InSeq(2, fv) /\ InSeq(3, fv)
                      /\ InSeq(4, fv) /\ InSeq(5, fv)
         IN  IF R # {}
             THEN [has |-> TRUE, high |-> fv[CHOOSE i \in R : \A j \in R : i <= j]]
             ELSE IF wheel THEN [has |-> TRUE, high |-> 5]
             ELSE [has |-> FALSE, high |-> 0]

\* Faulty variant: the vectors are left in the ascending order of the loop.
valuesHeld_Unsorted(vc, n) ==
    SelectSeq([i \in 1..13 |-> i + 1], LAMBDA v : vc[v] = n)

\* The values held exactly n times, descending (quads, trips, pairs, highCards).
valuesHeld(vc, n) == SelectSeq(DescValues, LAMBDA v : vc[v] = n)

\* The values held at all except x, descending.
valuesPresentExcept(vc, x) == SelectSeq(DescValues, LAMBDA v : vc[v] > 0 /\ v # x)

Take(s, n) == SubSeq(s, 1, MinOf(n, Len(s)))

\* Faulty variant: a full house is recognised only with two trips.
isFullHouse_TripsOnly(trips, pairs) == trips # <<>> /\ Len(trips) > 1

isFullHouse(trips, pairs) == trips # <<>> /\ (pairs # <<>> \/ Len(trips) > 1)

twoPairKicker(highCards) == Take(highCards, 1)

evaluateComplete(hand) ==
    LET vc    == valueCounts(hand)
        sc    == suitCounts(hand)
        hf    == hasFlush(sc)
        fc    == IF hf THEN flushCards(hand, flushSuit(sc)) ELSE <<>>
        hs    == hasStraight(vc)
        shc   == straightHighCard(vc)
        sf    == straightFlush(hf, fc, hs, shc)
        quads == valuesHeld(vc, 4)
        trips == valuesHeld(vc, 3)
        pairs == valuesHeld(vc, 2)
        highCards == valuesHeld(vc, 1)
    IN  IF sf.has /\ sf.high = 14
        THEN HandEvaluation(ROYAL_FLUSH, <<14>>)
        ELSE IF sf.has
        THEN HandEvaluation(STRAIGHT_FLUSH, <<sf.high>>)
        ELSE IF quads # <<>>
        THEN HandEvaluation(FOUR_OF_A_KIND,
                 <<quads[1]>> \o Take(valuesPresentExcept(vc, quads[1]), 1))
        ELSE IF isFullHouse(trips, pairs)
        THEN HandEvaluation(FULL_HOUSE,
                 <<trips[1], IF pairs # <<>> THEN pairs[1] ELSE trips[2]>>)
        ELSE IF hf
        THEN HandEvaluation(FLUSH, Take(fc, 5))
        ELSE IF hs
        THEN HandEvaluation(STRAIGHT, <<shc>>)
        ELSE IF trips # <<>>
        THEN HandEvaluation(THREE_OF_A_KIND, <<trips[1]>> \o Take(highCards, 2))
        ELSE IF Len(pairs) >= 2
        THEN HandEvaluation(TWO_PAIR,
                 <<pairs[1], pairs[2]>> \o twoPairKicker(highCards))
        ELSE IF Len(pairs) = 1
        THEN HandEvaluation(PAIR, <<pairs[1]>> \o Take(highCards, 3))
        ELSE HandEvaluation(HIGH_CARD, Take(valuesPresentExcept(vc, 0), 5))

(***************************************************************************)
(* std::rand: a linear congruential generator whose whole state is the     *)
(* value returned. The state on entry to a shuffle is an input.            *)
(***************************************************************************)
RandNext(s) == (s * 1105 + 12345) % 32768

(***************************************************************************)
(* Deck. A deck is the vector Deck::cards; back() is the last element.     *)
(***************************************************************************)
\* The cards reset() pushes: suits outermost, values 2..14 inside.
FreshCards == [k \in 1..DECK_SIZE |-> Card((k - 1) \div 13, ((k - 1) % 13) + 2)]

\* Faulty variant: reset() without cards.clear().
DeckReset_NoClear(d) == d \o FreshCards

\* reset(): cards.clear(), then the 52 pushes.
DeckReset(d) == FreshCards

\* Deck(): reset() on the empty vector.
NewDeck == DeckReset(<<>>)

Swap(d, i, j) == [d EXCEPT ![i] = d[j], ![j] = d[i]]

\* The Fisher-Yates loop from 0-based index i down to 1, generator state s:
\* [cards, rnd].
RECURSIVE ShuffleFrom(_, _, _)
ShuffleFrom(d, i, s) ==
    IF i <= 0
    THEN [cards |-> d, rnd |-> s]
    ELSE LET r == RandNext(s)
             j == r % (i + 1)
         IN  ShuffleFrom(Swap(d, i + 1, j + 1), i - 1, r)

\* shuffle(). On an empty vector size()-1 wraps around and the loop indexes
\* out of bounds; no input of the model shuffles an empty deck.
DeckShuffle(d, s) == ShuffleFrom(d, Len(d) - 1, s)

\* Faulty variant: deal() takes the first card instead of the last.
DeckDeal_Front(d) ==
    IF d = <<>>
    THEN [threw |-> TRUE, card |-> Card(CLUBS, TWO), cards |-> d]
    ELSE [threw |-> FALSE, card |-> d[1], cards |-> SubSeq(d, 2, Len(d))]

\* deal(): [threw, card, cards].
DeckDeal(d) ==
    IF d = <<>>
    THEN [threw |-> TRUE, card |-> Card(CLUBS, TWO), cards |-> d]
    ELSE [threw |-> FALSE, card |-> d[Len(d)], cards |-> SubSeq(d, 1, Len(d) - 1)]

\* removeCard(): erase the first card equal to c, if any.
DeckRemoveCard(d, c) ==
    LET I == {i \in DOMAIN d : cardsEqual(d[i], c)}
    IN  IF I = {} THEN d
        ELSE LET k == CHOOSE i \in I : \A j \in I : i <= j
             IN  SubSeq(d, 1, k - 1) \o SubSeq(d, k + 1, Len(d))

\* removeCard() for each card of the vector, in order.  Each call erases the
\* first card equal to its argument, so the k-th copy of a card in the deck
\* goes exactly when the vector asks for that card at least k times; the
\* cards that stay keep their order.
DeckRemoveAll(d, cs) ==
    LET asked(c) == Cardinality({i \in DOMAIN cs : cardsEqual(cs[i], c)})
        copy(k) == Cardinality({j \in 1..k : cardsEqual(d[j], d[k])})
        kept == SelectSeq([k \in DOMAIN d |-> k],
                          LAMBDA k : LET a == asked(d[k])
                                     IN  a = 0 \/ copy(k) > a)
    IN  [i \in DOMAIN kept |-> d[kept[i]]]

cardsLeft(d) == Len(d)

\* createCard(): [card, cards].
DeckCreateCard(d, s, v) == [card |-> Card(s, v), cards |-> DeckRemoveCard(d, Card(s, v))]

(***************************************************************************)
(* HandEvaluator::evaluate: [eval, rnd, threw]. A hand that is not of 7    *)
(* cards is first completed from a shuffled temporary deck.                *)
(***************************************************************************)
RECURSIVE FillHand(_, _)
FillHand(fullHand, tempDeck) ==
    IF Len(fullHand) >= 7
    THEN [hand |-> fullHand, threw |-> FALSE]
    ELSE LET dl == DeckDeal(tempDeck)
         IN  IF dl.threw
             THEN [hand |-> fullHand, threw |-> TRUE]
             ELSE FillHand(Append(fullHand, dl.card), dl.cards)

evaluate(hand, rnd) ==
    IF Len(hand) # 7
    THEN LET sh == DeckShuffle(DeckRemoveAll(NewDeck, hand), rnd)
             fh == FillHand(hand, sh.cards)
         IN  [eval  |-> IF fh.threw THEN HandEvaluation(HIGH_CARD, <<>>)
                        ELSE evaluateComplete(fh.hand),
              rnd   |-> sh.rnd,
              threw |-> fh.threw]
    ELSE [eval |-> evaluateComplete(hand), rnd |-> rnd, threw |-> FALSE]

(***************************************************************************)
(* PokerGame. A game value is [deck, botHoleCards, opponentHoleCards,      *)
(* communityCards, rnd, threw]: the four members, the generator state, and *)
(* whether Deck::deal has thrown (after which nothing more is done).       *)
(***************************************************************************)
\* communityCards.push_back(deck.deal())
PushCommunity(g) ==
    IF g.threw THEN g
    ELSE LET dl == DeckDeal(g.deck)
         IN  IF dl.threw THEN [g EXCEPT !.threw = TRUE]
             ELSE [g EXCEPT !.deck = dl.cards,
                            !.communityCards = Append(@, dl.card)]

\* opponentHoleCards.push_back(deck.deal())
PushOpponent(g) ==
    IF g.threw THEN g
    ELSE LET dl == DeckDeal(g.deck)
         IN  IF dl.threw THEN [g EXCEPT !.threw = TRUE]
             ELSE [g EXCEPT !.deck = dl.cards,
                            !.opponentHoleCards = Append(@, dl.card)]

\* Faulty variant: only the hole cards are removed.
removeKnown_HoleOnly(d, holeCards, boardCards) == DeckRemoveAll(d, holeCards)

\* "Remove known cards from the deck": the hole cards, then the community cards.
removeKnown(d, holeCards, boardCards) ==
    DeckRemoveAll(DeckRemoveAll(d, holeCards), boardCards)

\* Faulty variant: initialize() without deck.reset().
initialize_NoReset(d, knownBotCards, knownCommunityCards, rnd) ==
    LET removed == removeKnown(d, knownBotCards, knownCommunityCards)
        sh == DeckShuffle(removed, rnd)
        g  == [deck |-> sh.cards,
               botHoleCards |-> knownBotCards,
               opponentHoleCards |-> <<>>,
               communityCards |-> knownCommunityCards,
               rnd |-> sh.rnd,
               threw |-> FALSE]
    IN  PushOpponent(PushOpponent(g))

\* initialize(knownBotCards, knownCommunityCards)
initialize(d, knownBotCards, knownCommunityCards, rnd) ==
    LET removed == removeKnown(DeckReset(d), knownBotCards, knownCommunityCards)
        sh == DeckShuffle(removed, rnd)
        g  == [deck |-> sh.cards,
               botHoleCards |-> knownBotCards,
               opponentHoleCards |-> <<>>,
               communityCards |-> knownCommunityCards,
               rnd |-> sh.rnd,
               threw |-> FALSE]
    IN  PushOpponent(PushOpponent(g))

RECURSIVE dealFlop(_)
dealFlop(g) ==
    IF g.threw \/ Len(g.communityCards) >= 3 THEN g
    ELSE dealFlop(PushCommunity(g))

dealTurn(g) ==
    IF g.threw \/ Len(g.communityCards) >= 4 THEN g
    ELSE PushCommunity(IF Len(g.communityCards) < 3 THEN dealFlop(g) ELSE g)

\* Faulty variant: dealRiver() without its early return.
dealRiver_NoReturn(g) ==
    IF g.threw THEN g
    ELSE PushCommunity(IF Len(g.communityCards) < 4 THEN dealTurn(g) ELSE g)

dealRiver(g) ==
    IF g.threw \/ Len(g.communityCards) >= 5 THEN g
    ELSE PushCommunity(IF Len(g.communityCards) < 4 THEN dealTurn(g) ELSE g)

completeBoard(g) == dealRiver(g)

\* Faulty variant: a tie counts as a win.
botWins_OrEqual(botEval, opponentEval) ==
    GreaterThan(botEval, opponentEval) \/ Equals(botEval, opponentEval)

\* The comparison isWinner returns.
botWins(botEval, opponentEval) == GreaterThan(botEval, opponentEval)

\* isWinner(): [game, won].
isWinner(g) ==
    LET g1 == completeBoard(g)
        botHand == g1.botHoleCards \o g1.communityCards
        opponentHand == g1.opponentHoleCards \o g1.communityCards
        be == evaluate(botHand, g1.rnd)
        oe == IF be.threw THEN be ELSE evaluate(opponentHand, be.rnd)
    IN  IF g1.threw THEN [game |-> g1, won |-> FALSE]
        ELSE [game |-> [g1 EXCEPT !.rnd = oe.rnd, !.threw = be.threw \/ oe.threw],
              won  |-> ~be.threw /\ ~oe.threw /\ botWins(be.eval, oe.eval)]

(***************************************************************************)
(* MCTSNode.                                                               *)
(***************************************************************************)
\* Faulty variant: every visit counts as a win.
update_AlwaysWin(node, isWin) ==
    [wins |-> node.wins + 1, visits |-> node.visits + 1]

update(node, isWin) ==
    [wins |-> IF isWin THEN node.wins + 1 ELSE node.wins,
     visits |-> node.visits + 1]

\* getWinProbability(): the quotient wins / visits as <<numerator, denominator>>.
nodeWinProbability(node) ==
    IF node.visits = 0 THEN <<0, 1>> ELSE <<node.wins, node.visits>>

(***************************************************************************)
(* PokerBot.                                                               *)
(***************************************************************************)
\* WIN_PROBABILITY_THRESHOLD = 0.5 as <<numerator, denominator>>.
WIN_PROBABILITY_THRESHOLD == <<1, 2>>

\* p >= q for quotients with positive denominators.
RatGeq(p, q) == p[1] * q[2] >= q[1] * p[2]

getWinProbability == nodeWinProbability(rootNode)

\* Faulty variant: the threshold is exclusive.
shouldStay_Strict == ~RatGeq(WIN_PROBABILITY_THRESHOLD, getWinProbability)

shouldStay == RatGeq(getWinProbability, WIN_PROBABILITY_THRESHOLD)

\* The "Decision:" line of printStats.
Decision == IF shouldStay THEN "STAY" ELSE "FOLD"

\* runSingleSimulation(): [game, won].
runSingleSimulation(rnd) ==
    isWinner(completeBoard(initialize(deck, myCards, community, rnd)))

(***************************************************************************)
(* Bounds of the model.                                                    *)
(***************************************************************************)
\* Generator states a shuffle may start from: 1..NumSeeds.
NumSeeds == 3

\* The hands of SpecEval are the 7-card subsets of the first EvalPoolSize
\* cards of EvalPool.
EvalPoolSize == 18

\* A runMCTS call runs at most MaxRuns trials.
MaxRuns == 2

\* The elapsed time read inside runMCTS ranges over 0..MaxElapsedMs.
MaxElapsedMs == 1

\* A lone Deck undergoes at most MaxDeckOps operations.
MaxDeckOps == 4

Seeds == 1..NumSeeds

\* The cards removeCard and createCard are called with in SpecDeck: the
\* first and the last card of a fresh deck, and one in between.
DeckOpCards == {Card(CLUBS, 2), Card(HEARTS, 9), Card(SPADES, 14)}

\* The time limits passed to runMCTS: below, at and above zero.
TimeLimits == (0 - 1)..MaxElapsedMs

\* A known hand: the two vectors passed to setKnownCards. The first four of
\* KnownHands are 2 hole cards and 0, 3, 4 or 5 community cards; the last two
\* name so many cards that a trial runs out of cards: 51 cards, leaving one
\* card for the opponent, and 49 cards, leaving three for the opponent and
\* a board that needs two.
KnownHand(h, c) == [hole |-> h, community |-> c]

KnownHands ==
    { KnownHand(<<Card(SPADES, 14), Card(HEARTS, 14)>>, <<>>),
      KnownHand(<<Card(CLUBS, 7), Card(DIAMONDS, 2)>>,
                <<Card(SPADES, 14), Card(SPADES, 13), Card(HEARTS, 9)>>),
      KnownHand(<<Card(CLUBS, 9), Card(DIAMONDS, 9)>>,
                <<Card(SPADES, 10), Card(SPADES, 11), Card(HEARTS, 5),
                  Card(CLUBS, 2)>>),
      KnownHand(<<Card(CLUBS, 2), Card(DIAMONDS, 3)>>,
                <<Card(SPADES, 10), Card(SPADES, 11), Card(SPADES, 12),
                  Card(SPADES, 13), Card(SPADES, 14)>>),
      KnownHand(SubSeq(FreshCards, 1, 2), SubSeq(FreshCards, 3, 51)),
      KnownHand(SubSeq(FreshCards, 1, 46), SubSeq(FreshCards, 47, 49)) }

\* Card::toInt codes. Clubs A 2 3 4 5 6 10 J Q K; diamonds 2 3 4 5 A;
\* hearts 2 3; spades 2; then diamonds 6 K, hearts 4, spades 3.
EvalPool == <<12, 0, 1, 2, 3, 4, 8, 9, 10, 11,
              13, 14, 15, 16, 25,
              26, 27, 39,
              17, 24, 28, 40>>

PoolCard(i) == fromInt(EvalPool[i])

PoolLast == MinOf(EvalPoolSize, Len(EvalPool))

NoEvaluation == HandEvaluation(-1, <<>>)

\* The hands of SpecCompare are the 7-card subsets of the first
\* ComparePoolSize cards of ComparePool.
ComparePoolSize == 9

\* Card::toInt codes. Kings of clubs, diamonds, hearts; Queens of clubs,
\* diamonds; hearts A, diamonds 9, hearts 5, spades 4; then clubs A,
\* diamonds 2.
ComparePool == <<11, 24, 37, 10, 23, 38, 20, 29, 41, 12, 13>>

CompareLast == MinOf(ComparePoolSize, Len(ComparePool))

\* The cards of the pool at the positions of S, in the order of the pool.
CompareHand(S) ==
    LET pos == SelectSeq([i \in 1..CompareLast |-> i], LAMBDA i : i \in S)
    IN  [i \in 1..Len(pos) |-> fromInt(ComparePool[pos[i]])]

CompareHands ==
    {CompareHand(S) : S \in {T \in SUBSET (1..CompareLast) : Cardinality(T) = 7}}

NoComparison == [greater |-> FALSE, less |-> FALSE, equal |-> FALSE]

\* No comparison is under way.
NoOther ==
    /\ otherCards = <<>>
    /\ otherEvaluation = NoEvaluation
    /\ comparison = NoComparison

\* The hands of SpecOrder are the 7-card subsets of the first OrderPoolSize
\* cards of OrderPool.
OrderPoolSize == 14

\* Card::toInt codes. Clubs A 2 3 4 5 6 10; diamonds 2 3; hearts 2 3;
\* spades 2; diamonds 4 5; then diamonds A, clubs J.
OrderPool == <<12, 0, 1, 2, 3, 4, 8,
               13, 14,
               26, 27,
               39,
               15, 16,
               25, 9>>

OrderCard(i) == fromInt(OrderPool[i])

OrderLast == MinOf(OrderPoolSize, Len(OrderPool))

\* The orders in which the 7 cards of a hand are laid out in the vector
\* passed to evaluate: as drawn from the pool, reversed, rotated, with two
\* cards exchanged, and interleaved.
Orders ==
    { <<1, 2, 3, 4, 5, 6, 7>>, <<7, 6, 5, 4, 3, 2, 1>>,
      <<2, 3, 4, 5, 6, 7, 1>>, <<4, 5, 6, 7, 1, 2, 3>>,
      <<2, 1, 3, 4, 5, 6, 7>>, <<7, 2, 3, 4, 5, 6, 1>>,
      <<2, 4, 6, 1, 3, 5, 7>>, <<7, 1, 6, 2, 5, 3, 4>> }

Reorder(hand, p) == [i \in 1..Len(p) |-> hand[p[i]]]

(***************************************************************************)
(* The state after construction: PokerGame holds a fresh Deck and empty    *)
(* hands, PokerBot zeroed statistics and a fresh MCTSNode.                 *)
(***************************************************************************)
MCTSNode == [wins |-> 0, visits |-> 0]

InitGame ==
    /\ deck = NewDeck
    /\ botHoleCards = <<>>
    /\ opponentHoleCards = <<>>
    /\ communityCards = <<>>

InitBot ==
    /\ myCards = <<>>
    /\ community = <<>>
    /\ totalRuns = 0
    /\ winningRuns = 0
    /\ rootNode = MCTSNode
    /\ pc = "idle"
    /\ msTimeLimit = 0
    /\ elapsedMs = 0
    /\ won = FALSE

(***************************************************************************)
(* Spec: a PokerBot driven through its interface. pc is "idle" until the   *)
(* first runMCTS call, "running" inside a call, "done" once a call has     *)
(* returned and "aborted" once Deck::deal has thrown out of a call.        *)
(***************************************************************************)
Init ==
    /\ InitGame
    /\ InitBot
    /\ cards = <<>>
    /\ evaluation = NoEvaluation
    /\ NoOther
    /\ deckOps = 0

SetKnownCards ==
    /\ pc \in {"idle", "done"}
    /\ \E kh \in KnownHands :
          /\ myCards' = kh.hole
          /\ community' = kh.community
    /\ UNCHANGED <<gameVars, totalRuns, winningRuns, rootNode, pc,
                   msTimeLimit, elapsedMs, won, evalVars, deckOps>>

\* Faulty variant: the root node is not replaced.
resetStatistics_KeepNode ==
    /\ totalRuns' = 0
    /\ winningRuns' = 0
    /\ UNCHANGED rootNode

\* runMCTS up to the loop: the statistics are reset.
resetStatistics ==
    /\ totalRuns' = 0
    /\ winningRuns' = 0
    /\ rootNode' = MCTSNode

RunMCTS ==
    /\ pc \in {"idle", "done"}
    /\ \E limit \in TimeLimits : msTimeLimit' = limit
    /\ resetStatistics
    /\ elapsedMs' = 0
    /\ pc' = "running"
    /\ UNCHANGED <<gameVars, myCards, community, won, evalVars, deckOps>>

\* Faulty variant: the loop goes on when the elapsed time equals the limit.
timeLimitReached_Strict(e, limit) == e > limit

\* The test that leaves the loop: elapsedMs >= msTimeLimit.
timeLimitReached(e, limit) == e >= limit

\* One iteration of the loop that runs a trial: the clock is read, the limit
\* is not reached, the simulation runs and is counted.
LoopTrial ==
    /\ pc = "running"
    /\ totalRuns < MaxRuns
    /\ \E e \in elapsedMs..MaxElapsedMs : \E rnd \in Seeds :
          /\ ~timeLimitReached(e, msTimeLimit)
          /\ elapsedMs' = e
          /\ LET sim == runSingleSimulation(rnd)
             IN  /\ deck' = sim.game.deck
                 /\ botHoleCards' = sim.game.botHoleCards
                 /\ opponentHoleCards' = sim.game.opponentHoleCards
                 /\ communityCards' = sim.game.communityCards
                 /\ IF sim.game.threw
                    THEN /\ pc' = "aborted"
                         /\ UNCHANGED <<totalRuns, winningRuns, rootNode, won>>
                    ELSE /\ pc' = "running"
                         /\ won' = sim.won
                         /\ rootNode' = update(rootNode, sim.won)
                         /\ totalRuns' = totalRuns + 1
                         /\ winningRuns' = IF sim.won THEN winningRuns + 1
                                           ELSE winningRuns
    /\ UNCHANGED <<myCards, community, msTimeLimit, evalVars, deckOps>>

\* The iteration that finds the limit reached: the loop ends and runMCTS returns.
LoopBreak ==
    /\ pc = "running"
    /\ \E e \in elapsedMs..MaxElapsedMs :
          /\ timeLimitReached(e, msTimeLimit)
          /\ elapsedMs' = e
    /\ pc' = "done"
    /\ UNCHANGED <<gameVars, myCards, community, totalRuns, winningRuns,
                   rootNode, msTimeLimit, won, evalVars, deckOps>>

Next == SetKnownCards \/ RunMCTS \/ LoopTrial \/ LoopBreak

Spec == Init /\ [][Next]_vars

\* The same PokerBot under a clock that does reach the limit: an iteration
\* that finds the limit reached, possible as long as the loop runs, is
\* eventually taken.
SpecFair == Spec /\ WF_vars(LoopBreak)

(***************************************************************************)
(* SpecDeck: a Deck of its own under any sequence of its operations.       *)
(***************************************************************************)
InitDeck ==
    /\ deck = NewDeck
    /\ botHoleCards = <<>>
    /\ opponentHoleCards = <<>>
    /\ communityCards = <<>>
    /\ InitBot
    /\ cards = <<>>
    /\ evaluation = NoEvaluation
    /\ NoOther
    /\ deckOps = 0

DeckFrame ==
    /\ deckOps < MaxDeckOps
    /\ deckOps' = deckOps + 1
    /\ UNCHANGED <<botHoleCards, opponentHoleCards, communityCards, botVars,
                   evalVars>>

OpReset == DeckFrame /\ deck' = DeckReset(deck)

OpShuffle ==
    /\ DeckFrame
    /\ deck # <<>>
    /\ \E rnd \in Seeds : deck' = DeckShuffle(deck, rnd).cards

\* deal(); on an empty deck it throws and the deck stays empty.
OpDeal == DeckFrame /\ deck' = DeckDeal(deck).cards

OpRemoveCard ==
    /\ DeckFrame
    /\ \E c \in DeckOpCards : deck' = DeckRemoveCard(deck, c)

OpCreateCard ==
    /\ DeckFrame
    /\ \E c \in DeckOpCards : deck' = DeckCreateCard(deck, c.suit, c.value).cards

NextDeck == OpReset \/ OpShuffle \/ OpDeal \/ OpRemoveCard \/ OpCreateCard

SpecDeck == InitDeck /\ [][NextDeck]_vars

(***************************************************************************)
(* SpecEval: HandEvaluator::evaluate on a vector of 7 distinct cards.      *)
(***************************************************************************)
\* No PokerGame and no PokerBot exist: their variables stay empty.
InitNoGame ==
    /\ deck = <<>>
    /\ botHoleCards = <<>>
    /\ opponentHoleCards = <<>>
    /\ communityCards = <<>>

InitEval ==
    /\ InitNoGame
    /\ InitBot
    /\ deckOps = 0
    /\ evaluation = NoEvaluation
    /\ NoOther
    /\ \E i1 \in 1..PoolLast : \E i2 \in (i1+1)..PoolLast :
       \E i3 \in (i2+1)..PoolLast : \E i4 \in (i3+1)..PoolLast :
       \E i5 \in (i4+1)..PoolLast : \E i6 \in (i5+1)..PoolLast :
       \E i7 \in (i6+1)..PoolLast :
          cards = <<PoolCard(i1), PoolCard(i2), PoolCard(i3), PoolCard(i4),
                    PoolCard(i5), PoolCard(i6), PoolCard(i7)>>

Evaluate ==
    /\ evaluation = NoEvaluation
    /\ \E rnd \in Seeds : evaluation' = evaluate(cards, rnd).eval
    /\ UNCHANGED <<gameVars, botVars, cards, otherVars, deckOps>>

NextEval == Evaluate

SpecEval == InitEval /\ [][NextEval]_vars

(***************************************************************************)
(* SpecOrder: HandEvaluator::evaluate on 7 distinct cards laid out in the  *)
(* vector in one of several orders; cards keeps the order of the pool.     *)
(***************************************************************************)
InitOrder ==
    /\ InitNoGame
    /\ InitBot
    /\ deckOps = 0
    /\ evaluation = NoEvaluation
    /\ NoOther
    /\ \E i1 \in 1..OrderLast : \E i2 \in (i1+1)..OrderLast :
       \E i3 \in (i2+1)..OrderLast : \E i4 \in (i3+1)..OrderLast :
       \E i5 \in (i4+1)..OrderLast : \E i6 \in (i5+1)..OrderLast :
       \E i7 \in (i6+1)..OrderLast :
          cards = <<OrderCard(i1), OrderCard(i2), OrderCard(i3), OrderCard(i4),
                    OrderCard(i5), OrderCard(i6), OrderCard(i7)>>

EvaluateInOrder ==
    /\ evaluation = NoEvaluation
    /\ \E rnd \in Seeds : \E p \in Orders :
          evaluation' = evaluate(Reorder(cards, p), rnd).eval
    /\ UNCHANGED <<gameVars, botVars, cards, otherVars, deckOps>>

NextOrder == EvaluateInOrder

SpecOrder == InitOrder /\ [][NextOrder]_vars

(***************************************************************************)
(* SpecCompare: two hands of 7 distinct cards are evaluated and the two    *)
(* HandEvaluations compared with operator> both ways and with operator==.  *)
(***************************************************************************)
InitCompare ==
    /\ InitNoGame
    /\ InitBot
    /\ deckOps = 0
    /\ cards \in CompareHands
    /\ otherCards \in CompareHands
    /\ evaluation = NoEvaluation
    /\ otherEvaluation = NoEvaluation
    /\ comparison = NoComparison

Compare ==
    /\ evaluation = NoEvaluation
    /\ \E rnd \in Seeds :
          LET eval1 == evaluate(cards, rnd).eval
              eval2 == evaluate(otherCards, rnd).eval
          IN  /\ evaluation' = eval1
              /\ otherEvaluation' = eval2
              /\ comparison' = [greater |-> GreaterThan(eval1, eval2),
                                less    |-> GreaterThan(eval2, eval1),
                                equal   |-> Equals(eval1, eval2)]
    /\ UNCHANGED <<gameVars, botVars, cards, otherCards, deckOps>>

NextCompare == Compare

SpecCompare == InitCompare /\ [][NextCompare]_vars

(***************************************************************************)
(* The standard poker value of a five-card hand, and the best of the 21    *)
(* five-card subsets of a 7-card hand.                                     *)
(***************************************************************************)
FiveSubsets == {S \in SUBSET (1..7) : Cardinality(S) = 5}

\* The hand's values ordered by (times held, value), both descending.
GroupedValues(hand, S) ==
    LET cnt == [v \in Values |-> Cardinality({i \in S : hand[i].value = v})]
    IN  SelectSeq(DescValues, LAMBDA v : cnt[v] = 4)
        \o SelectSeq(DescValues, LAMBDA v : cnt[v] = 3)
        \o SelectSeq(DescValues, LAMBDA v : cnt[v] = 2)
        \o SelectSeq(DescValues, LAMBDA v : cnt[v] = 1)

FiveValue(hand, S) ==
    LET g     == GroupedValues(hand, S)
        vals  == {hand[i].value : i \in S}
        flush == \A i, j \in S : hand[i].suit = hand[j].suit
        wheel == vals = {14, 2, 3, 4, 5}
        run   == Len(g) = 5 /\ g[1] - g[5] = 4
        top   == Cardinality({i \in S : hand[i].value = g[1]})
    IN  IF flush /\ run /\ g[1] = 14 THEN HandEvaluation(ROYAL_FLUSH, <<14>>)
        ELSE IF flush /\ run THEN HandEvaluation(STRAIGHT_FLUSH, <<g[1]>>)
        ELSE IF flush /\ wheel THEN HandEvaluation(STRAIGHT_FLUSH, <<5>>)
        ELSE IF top = 4 THEN HandEvaluation(FOUR_OF_A_KIND, g)
        ELSE IF top = 3 /\ Len(g) = 2 THEN HandEvaluation(FULL_HOUSE, g)
        ELSE IF flush THEN HandEvaluation(FLUSH, g)
        ELSE IF run THEN HandEvaluation(STRAIGHT, <<g[1]>>)
        ELSE IF wheel THEN HandEvaluation(STRAIGHT, <<5>>)
        ELSE IF top = 3 THEN HandEvaluation(THREE_OF_A_KIND, g)
        ELSE IF top = 2 /\ Len(g) = 3 THEN HandEvaluation(TWO_PAIR, g)
        ELSE IF top = 2 THEN HandEvaluation(PAIR, g)
        ELSE HandEvaluation(HIGH_CARD, g)

\* Category first, then the tiebreakers most significant first, as one number.
Key(e) ==
    LET tb == e.tiebreakers
        w[i \in 0..5] ==
            IF i = 0 THEN e.rank
            ELSE 15 * w[i-1] + (IF i <= Len(tb) THEN tb[i] ELSE 0)
    IN  w[5]

BestFive(hand) ==
    LET E == {FiveValue(hand, S) : S \in FiveSubsets}
        K == {Key(e) : e \in E}
        m == CHOOSE k \in K : \A j \in K : k >= j
    IN  CHOOSE e \in E : Key(e) = m

Evaluated == evaluation # NoEvaluation

HandValues == {cards[i].value : i \in DOMAIN cards}

TimesHeld(v) == Cardinality({i \in DOMAIN cards : cards[i].value = v})

SuitSize(s) == Cardinality({i \in DOMAIN cards : cards[i].suit = s})

\* No two entries of the sequence are the same card.
Distinct(cs) == \A i, j \in DOMAIN cs : i # j => cs[i] # cs[j]

(***************************************************************************)
(* C1. For every hand of 7 distinct cards evaluateComplete returns the     *)
(* best HandEvaluation of its 21 five-card subsets, each scored by the     *)
(* standard rules. The code contradicts it on hands with three pairs.      *)
(***************************************************************************)
C1_BestOfFiveCardSubsets == Evaluated => evaluation = BestFive(cards)

(***************************************************************************)
(* C2. For every hand of 7 distinct cards the category returned is the     *)
(* highest category any of its five-card subsets has.                      *)
(***************************************************************************)
C2_CategoryIsHighest == Evaluated => evaluation.rank = BestFive(cards).rank

\* A hand with a trip and a pair has been evaluated as a full house.
C2_Witness ==
    /\ Evaluated
    /\ \E v, w \in Values : v # w /\ TimesHeld(v) = 3 /\ TimesHeld(w) = 2
    /\ evaluation.rank = FULL_HOUSE

(***************************************************************************)
(* C3. After a trial on 2 hole cards and 0, 3, 4 or 5 community cards, all *)
(* pairwise distinct, the subject's 2 hole cards, the opponent's 2 hole    *)
(* cards and the 5 board cards are 9 distinct cards, none of them in the   *)
(* deck.                                                                   *)
(***************************************************************************)
KnownCardsValid ==
    /\ Len(myCards) = 2
    /\ Len(community) \in {0, 3, 4, 5}
    /\ Distinct(myCards \o community)

\* The game holds the cards of the last trial of the call in progress.
TrialDone == pc = "running" /\ totalRuns > 0

C3_TrialCardsDistinct ==
    (TrialDone /\ KnownCardsValid) =>
        LET nine == botHoleCards \o opponentHoleCards \o communityCards
        IN  /\ Len(botHoleCards) = 2
            /\ Len(opponentHoleCards) = 2
            /\ Len(communityCards) = 5
            /\ Distinct(nine)
            /\ \A i \in DOMAIN nine : \A j \in DOMAIN deck : deck[j] # nine[i]

\* A trial that had to draw the turn and the river has been run.
C3_Witness ==
    /\ TrialDone
    /\ KnownCardsValid
    /\ Len(community) = 3
    /\ Len(communityCards) = 5

(***************************************************************************)
(* C4. Whatever operations a Deck has undergone, it holds no card twice,   *)
(* at most 52 cards, and only cards of the 52 canonical ones; a reset      *)
(* leaves exactly the 52 canonical cards.                                  *)
(***************************************************************************)
Canonical(c) == c.suit \in 0..3 /\ c.value \in 2..14

DeckValid(d) ==
    /\ Distinct(d)
    /\ Len(d) <= 52
    /\ \A i \in DOMAIN d : Canonical(d[i])

FullDeck(d) ==
    /\ DeckValid(d)
    /\ Len(d) = 52
    /\ \A s \in 0..3 : \A v \in 2..14 : \E i \in DOMAIN d : d[i] = Card(s, v)

SubjectEvaluation == evaluateComplete(botHoleCards \o communityCards)

OpponentEvaluation == evaluateComplete(opponentHoleCards \o communityCards)

SevenCardHands ==
    /\ Len(botHoleCards) = 2
    /\ Len(opponentHoleCards) = 2
    /\ Len(communityCards) = 5

C5_WinIffStrictlyGreater ==
    /\ []((TrialDone /\ Len(myCards) = 2) =>
            /\ SevenCardHands
            /\ won <=> Key(SubjectEvaluation) > Key(OpponentEvaluation))
    /\ [][(pc = "running" /\ pc' = "running") =>
              /\ totalRuns' = totalRuns + 1
              /\ winningRuns' = IF won' THEN winningRuns + 1 ELSE winningRuns]_vars

\* The only trial of the call was a tie, and no win is recorded.
C5_Witness ==
    /\ pc = "running"
    /\ SevenCardHands
    /\ totalRuns = 1
    /\ winningRuns = 0
    /\ ~won
    /\ SubjectEvaluation = OpponentEvaluation

(***************************************************************************)
(* C6. After a runMCTS call that ran no trial the decision reported is     *)
(* "undecided", neither STAY nor FOLD. The code reports FOLD.              *)
(***************************************************************************)
C6_ZeroTrialsUndecided ==
    (pc = "done" /\ totalRuns = 0) => Decision \notin {"STAY", "FOLD"}

(***************************************************************************)
(* C7. The decision is STAY exactly when wins / total trials is at least   *)
(* one half, and FOLD otherwise; wins * 2 = total > 0 gives STAY.          *)
(***************************************************************************)
C7_StayIffAtLeastThreshold ==
    /\ shouldStay <=> (totalRuns > 0 /\ 2 * winningRuns >= totalRuns)
    /\ Decision = IF totalRuns > 0 /\ 2 * winningRuns >= totalRuns
                  THEN "STAY" ELSE "FOLD"

\* Exactly at the threshold, the decision is STAY.
C7_Witness ==
    /\ totalRuns > 0
    /\ 2 * winningRuns = totalRuns
    /\ Decision = "STAY"

C9_CallStartsFromZero ==
    [][/\ (pc # "running" /\ pc' = "running") =>
             (totalRuns' = 0 /\ winningRuns' = 0 /\ rootNode' = MCTSNode)
       /\ (pc = "running" /\ pc' = "running") =>
             (totalRuns' = totalRuns + 1
              /\ rootNode'.visits = rootNode.visits + 1)
       /\ (pc = "running" /\ pc' = "done") =>
             UNCHANGED <<totalRuns, winningRuns, rootNode>>]_vars

\* A call has just started with zeroed statistics while the game still holds
\* the cards of a trial of an earlier call.
C9_Witness ==
    /\ pc = "running"
    /\ totalRuns = 0
    /\ rootNode = MCTSNode
    /\ opponentHoleCards # <<>>

(***************************************************************************)
(* C10. A hand of 7 distinct cards with an Ace, 2, 3, 4 and 5 and no five  *)
(* cards of one suit is a STRAIGHT; without a 6 its tiebreakers are <<5>>, *)
(* and with a higher run of five they are the top of the highest run.      *)
(***************************************************************************)
HasWheelValues == {14, 2, 3, 4, 5} \subseteq HandValues

NoFiveOfOneSuit == \A s \in 0..3 : SuitSize(s) < 5

\* The tops of the runs of five consecutive values the hand holds.
RunTops == {h \in 6..14 : (h - 4)..h \subseteq HandValues}

C10_WheelIsFiveHigh ==
    (Evaluated /\ HasWheelValues /\ NoFiveOfOneSuit) =>
        /\ evaluation.rank = STRAIGHT
        /\ 6 \notin HandValues => evaluation.tiebreakers = <<5>>
        /\ RunTops # {} =>
              evaluation.tiebreakers = <<CHOOSE h \in RunTops :
                                            \A k \in RunTops : k <= h>>

\* A wheel without a 6 and without a flush has been evaluated.
C10_Witness ==
    /\ Evaluated
    /\ HasWheelValues
    /\ NoFiveOfOneSuit
    /\ 6 \notin HandValues
    /\ evaluation = HandEvaluation(STRAIGHT, <<5>>)

(***************************************************************************)
(* C11. A hand of 7 distinct cards holding the Ace, 2, 3, 4 and 5 of one   *)
(* suit without the 6 of that suit is a STRAIGHT_FLUSH with tiebreakers    *)
(* <<5>>; when a suit holds runs of five consecutive values, the top of    *)
(* the highest run is reported, as ROYAL_FLUSH <<14>> when it is the Ace.  *)
(***************************************************************************)
SuitValues(s) == {cards[i].value : i \in {j \in DOMAIN cards : cards[j].suit = s}}

\* The tops of the runs of five consecutive values held in suit s.
SuitRunTops(s) == {h \in 6..14 : (h - 4)..h \subseteq SuitValues(s)}

C11_WheelStraightFlush ==
    Evaluated =>
        \A s \in Suits :
            /\ ({14, 2, 3, 4, 5} \subseteq SuitValues(s) /\ 6 \notin SuitValues(s)) =>
                  evaluation = HandEvaluation(STRAIGHT_FLUSH, <<5>>)
            /\ SuitRunTops(s) # {} =>
                  LET h == CHOOSE x \in SuitRunTops(s) :
                               \A k \in SuitRunTops(s) : k <= x
                  IN  evaluation = IF h = 14
                                   THEN HandEvaluation(ROYAL_FLUSH, <<14>>)
                                   ELSE HandEvaluation(STRAIGHT_FLUSH, <<h>>)

\* A suited wheel without the suited 6 has been evaluated.
C11_Witness ==
    /\ Evaluated
    /\ \E s \in Suits : {14, 2, 3, 4, 5} \subseteq SuitValues(s) /\ 6 \notin SuitValues(s)
    /\ evaluation = HandEvaluation(STRAIGHT_FLUSH, <<5>>)

(***************************************************************************)
(* C12. The tiebreakers of a FULL_HOUSE are the highest value held three   *)
(* times, then the highest of the other values held at least twice: the    *)
(* highest pair beside one trip, the lower trip when there are two trips.  *)
(* With equal trips the higher pair wins.                                  *)
(***************************************************************************)
MaxOf(S) == CHOOSE x \in S : \A y \in S : y <= x

\* Between full houses on the same trip, the one with the higher pair is greater.
HigherPairWins ==
    \A t, p, q \in Values :
        p > q => /\ GreaterThan(HandEvaluation(FULL_HOUSE, <<t, p>>),
                                HandEvaluation(FULL_HOUSE, <<t, q>>))
                 /\ ~GreaterThan(HandEvaluation(FULL_HOUSE, <<t, q>>),
                                 HandEvaluation(FULL_HOUSE, <<t, p>>))

C12_FullHouseTiebreakers ==
    /\ HigherPairWins
    /\ (Evaluated /\ evaluation.rank = FULL_HOUSE) =>
          LET T == {v \in Values : TimesHeld(v) = 3}
              t == MaxOf(T)
              O == {v \in Values : v # t /\ TimesHeld(v) >= 2}
          IN  /\ T # {}
              /\ O # {}
              /\ evaluation.tiebreakers = <<t, MaxOf(O)>>

\* Two trips and no pair: the lower trip is the second tiebreaker.
C12_Witness ==
    /\ Evaluated
    /\ evaluation.rank = FULL_HOUSE
    /\ \E v, w \in Values :
          /\ v > w
          /\ TimesHeld(v) = 3
          /\ TimesHeld(w) = 3
          /\ evaluation.tiebreakers = <<v, w>>

(***************************************************************************)
(* C13. evaluate on 7 cards depends on the cards only, not on their order  *)
(* in the vector: the call made returned what a call on any other order of *)
(* the same cards returns; it consumes no random number, does not fail,    *)
(* and leaves every deck as it was.                                        *)
(***************************************************************************)
C13_OrderIndependent ==
    /\ [](Evaluated =>
            \A p \in Orders : \A rnd \in Seeds :
                LET r == evaluate(Reorder(cards, p), rnd)
                IN  /\ r.eval = evaluation
                    /\ r.rnd = rnd
                    /\ ~r.threw)
    /\ [][evaluation' # evaluation => UNCHANGED gameVars]_vars

\* A flush has been evaluated: the one category whose tiebreakers are read
\* off the cards of the vector, here laid out in another order.
C13_Witness ==
    /\ Evaluated
    /\ evaluation.rank = FLUSH
    /\ evaluation = evaluate(Reorder(cards, <<7, 6, 5, 4, 3, 2, 1>>), 1).eval
    /\ Reorder(cards, <<7, 6, 5, 4, 3, 2, 1>>) # cards

(***************************************************************************)
(* C14. operator> and operator== order the evaluations of 7-card hands     *)
(* totally: a higher category is greater whatever the tiebreakers; within  *)
(* a category the tiebreakers have one length and the first difference     *)
(* decides; operator> is irreflexive and transitive; of a > b, b > a and   *)
(* a == b exactly one holds.                                               *)
(***************************************************************************)
\* The evaluations of all the hands a comparison may be made on.
CompareEvaluations == {evaluateComplete(h) : h \in CompareHands}

Compared == otherEvaluation # NoEvaluation

\* Between any two of the ten categories the higher one is greater, with
\* the lowest tiebreakers against the highest ones as well.
CategoryDecides ==
    \A r1, r2 \in HIGH_CARD..ROYAL_FLUSH :
        \A t1, t2 \in {<<2>>, <<14>>, <<3, 2>>, <<14, 13, 12, 11, 9>>} :
            r1 > r2 =>
                /\ GreaterThan(HandEvaluation(r1, t1), HandEvaluation(r2, t2))
                /\ ~GreaterThan(HandEvaluation(r2, t2), HandEvaluation(r1, t1))
                /\ ~Equals(HandEvaluation(r1, t1), HandEvaluation(r2, t2))

C14_TotalOrder ==
    /\ CategoryDecides
    /\ Compared =>
        LET a  == evaluation
            b  == otherEvaluation
            ta == a.tiebreakers
            tb == b.tiebreakers
            D  == {i \in DOMAIN ta : ta[i] # tb[i]}
        IN  /\ a.rank > b.rank =>
                  comparison = [greater |-> TRUE, less |-> FALSE, equal |-> FALSE]
            /\ a.rank = b.rank =>
                  /\ Len(ta) = Len(tb)
                  /\ D = {} =>
                        comparison = [greater |-> FALSE, less |-> FALSE, equal |-> TRUE]
                  /\ D # {} =>
                        LET d == CHOOSE i \in D : \A j \in D : i <= j
                        IN  comparison = [greater |-> ta[d] > tb[d],
                                          less    |-> ta[d] < tb[d],
                                          equal   |-> FALSE]
            /\ Cardinality({f \in {"greater", "less", "equal"} : comparison[f]}) = 1
            /\ ~GreaterThan(a, a)
            /\ Equals(a, a)
            /\ \A c \in CompareEvaluations :
                  (comparison.greater /\ GreaterThan(b, c)) => GreaterThan(a, c)

\* Two hands of one category that differ only in a later tiebreaker have
\* been compared.
C14_Witness ==
    /\ Compared
    /\ evaluation.rank = otherEvaluation.rank
    /\ Len(evaluation.tiebreakers) >= 2
    /\ evaluation.tiebreakers[1] = otherEvaluation.tiebreakers[1]
    /\ comparison.greater

(***************************************************************************)
(* C15. Deck::deal on a non-empty deck removes the last card and returns   *)
(* it: the deck is one card shorter, the card is no longer in it and the   *)
(* other cards are as before; on a deck of one card the deck becomes       *)
(* empty. On an empty deck it fails and the deck stays empty; the failure  *)
(* goes through PokerGame and runMCTS uncaught and ends the call, the      *)
(* trial uncounted.                                                        *)
(***************************************************************************)
\* Decks of up to three cards, in every order.
SmallDecks ==
    {d \in UNION {[1..n -> DeckOpCards] : n \in 0..3} : Distinct(d)}

DealLaw ==
    \A d \in SmallDecks :
        LET r == DeckDeal(d)
        IN  IF d = <<>>
            THEN r.threw /\ r.cards = <<>>
            ELSE /\ ~r.threw
                 /\ r.card = d[Len(d)]
                 /\ Len(r.cards) = Len(d) - 1
                 /\ \A i \in 1..(Len(d) - 1) : r.cards[i] = d[i]
                 /\ \A i \in DOMAIN r.cards : r.cards[i] # r.card

Reverse(s) == [i \in 1..Len(s) |-> s[Len(s) + 1 - i]]

\* The cards the last trial was dealt, in the order dealt.
Drawn ==
    opponentHoleCards
    \o SubSeq(communityCards, Len(community) + 1, Len(communityCards))

\* The number of cards a trial on the known cards deals.
CardsNeeded == 2 + (IF Len(community) < 5 THEN 5 - Len(community) ELSE 0)

\* The deck once the known cards are removed.
KnownRemoved == removeKnown(FreshCards, myCards, community)

\* A trial has been run, or begun, on the known cards.
TrialBegun == TrialDone \/ pc = "aborted"

C15_DealRemovesLast ==
    /\ [](DealLaw)
    /\ [](TrialBegun =>
            /\ \E rnd \in Seeds :
                  DeckShuffle(KnownRemoved, rnd).cards = deck \o Reverse(Drawn)
            /\ pc = "aborted" <=> Len(KnownRemoved) < CardsNeeded
            /\ pc = "aborted" => deck = <<>>)
    /\ [][(pc' = "aborted" => UNCHANGED <<totalRuns, winningRuns, rootNode, won>>)
           /\ (pc = "aborted" => pc' = "aborted")]_vars

\* The deck held one card: the opponent got it, the deck is empty, and the
\* next deal has ended the call.
C15_Witness ==
    /\ pc = "aborted"
    /\ Len(KnownRemoved) = 1
    /\ opponentHoleCards = KnownRemoved
    /\ deck = <<>>

C17_TrialDrawCounts ==
    /\ KnownCardsValid => pc # "aborted"
    /\ (TrialDone /\ KnownCardsValid) =>
          /\ Len(opponentHoleCards) = 2
          /\ Len(communityCards) = 5
          /\ SubSeq(communityCards, 1, Len(community)) = community
          /\ Len(Drawn) = 2 + (5 - Len(community))
          /\ Len(deck) = 43
          /\ \A rnd \in Seeds :
                LET dealt == initialize(deck, myCards, community, rnd)
                    board == completeBoard(dealt)
                    shown == isWinner(board).game
                IN  /\ ~shown.threw
                    /\ Len(dealt.opponentHoleCards) = 2
                    /\ Len(dealt.deck) = 52 - 2 - Len(community) - 2
                    /\ Len(board.communityCards) = 5
                    /\ Len(board.deck) = 43
                    /\ completeBoard(board) = board
                    /\ shown.deck = board.deck
                    /\ shown.communityCards = board.communityCards

\* A trial on four known community cards has dealt the river only.
C17_Witness ==
    /\ TrialDone
    /\ KnownCardsValid
    /\ Len(community) = 4
    /\ Len(Drawn) = 3
    /\ Len(deck) = 43

(***************************************************************************)
(* C18. Trials leave the known hand alone and leave nothing behind for the *)
(* next trial: myCards and community change only in setKnownCards, and     *)
(* whatever the game holds from earlier trials, initialize gives the game  *)
(* the known hole cards, the known community cards, and a deck that is the *)
(* 52 cards less the known cards and the opponent's 2 new cards.           *)
(***************************************************************************)
CardSet(s) == {s[i] : i \in DOMAIN s}

C18_NoLeakBetweenTrials ==
    /\ [](\A rnd \in Seeds :
            LET g == initialize(deck, myCards, community, rnd)
            IN  /\ g.botHoleCards = myCards
                /\ g.communityCards = community
                /\ g = initialize(FreshCards, myCards, community, rnd)
                /\ (~g.threw) =>
                      /\ Len(g.opponentHoleCards) = 2
                      /\ Distinct(g.deck)
                      /\ CardSet(g.deck) =
                            ((CardSet(FreshCards) \ CardSet(myCards \o community))
                                \ CardSet(g.opponentHoleCards)))
    /\ [](TrialBegun =>
            /\ botHoleCards = myCards
            /\ SubSeq(communityCards, 1, Len(community)) = community)
    /\ [][(pc = "running" => UNCHANGED <<myCards, community>>)
           /\ (<<myCards, community>>' # <<myCards, community>> =>
                 (\E kh \in KnownHands :
                      myCards' = kh.hole /\ community' = kh.community))]_vars

\* The second trial of a call has run on the known hand, after a first one
\* that left its own cards in the game.
C18_Witness ==
    /\ TrialDone
    /\ totalRuns = 2
    /\ KnownCardsValid
    /\ botHoleCards = myCards
    /\ Len(deck) = 43

====
